---- MODULE Spec2Model ----
(***************************************************************************)
(* Model of firstrade_vs_sp500_app.py: the financial helpers (xnpv, xirr,  *)
(* total_invested, lump_cagr, portfolio_cagr, sp500_cagr_lumpsum,          *)
(* sp_xirr_equivalent) and the main panel that builds the cash-flow list   *)
(* and calls them in order.                                                *)
(*                                                                         *)
(* Conventions.  A date is a day number.  A cash flow is the Python tuple  *)
(* (date, amount), here <<date, amount>>.  Amounts, prices, shares are     *)
(* exact rationals <<n, d>> (d > 0, lowest terms): floating-point rounding *)
(* is abstracted away, everything else is computed.  Python lists live in  *)
(* `heap` and are named by their index there, so that aliasing and         *)
(* in-place mutation are visible.  The value of a power with a fractional  *)
(* exponent is not computed: xnpv yields the kind of its result, and the   *)
(* root-finder's choice of the next candidate rate is an input.            *)
(***************************************************************************)
EXTENDS Integers, Sequences, FiniteSets, TLC

\* ------------------------------------------------------------------ bounds
MaxDay == 1
MaxTrades == 2

\* --------------------------------------------------------------- constants
YearDays == 365
maxiter == 50

Dates == (0..MaxDay) \cup {YearDays}
TradeAmounts == {-500, 200}
PortfolioValues == {0, 1000}
PriceSet == {100, 250}
RecordTypes == {"Trade", "Dividend"}

\* --------------------------------------------------------------- rationals
RECURSIVE GCD(_, _)
GCD(a, b) == IF b = 0 THEN a ELSE GCD(b, a % b)

Abs(n) == IF n < 0 THEN -n ELSE n

Norm(n, d) ==
    LET s == IF d < 0 THEN -1 ELSE 1
        g == GCD(Abs(n), Abs(d))
    IN  <<(s * n) \div g, (s * d) \div g>>

R(n) == <<n, 1>>
RAdd(x, y) == Norm(x[1] * y[2] + y[1] * x[2], x[2] * y[2])
RNeg(x) == <<-x[1], x[2]>>
RMul(x, y) == Norm(x[1] * y[1], x[2] * y[2])
RDiv(x, y) == Norm(x[1] * y[2], x[2] * y[1])
RLess(x, y) == x[1] * y[2] < y[1] * x[2]
RZero == R(0)

\* ------------------------------------------------------------ result values
NoResult == [kind |-> "none", exc |-> ""]
Nan == [kind |-> "nan", exc |-> ""]
Rate == [kind |-> "rate", exc |-> ""]
Raise(e) == [kind |-> "raise", exc |-> e]
NoErr == [exc |-> "", at |-> ""]

VARIABLES
    pc,           \* position of the script run
    heap,         \* the Python lists alive, by object index
    cflows,       \* index in heap of the main panel's cflows (0: unbound)
    built,        \* the list cflows as it was when line 137 finished
    scalar,       \* numeric type of the rates the root-finder hands to xnpv
    portfolio_now,   \* the number_input's value, once past the gate
    invested, port_xirr, sp_xirr, port_cagr, sp_cagr,
    prices, shares, final_value, synthetic,   \* locals of sp_xirr_equivalent
    displayed,    \* metrics shown by st.metric
    err,          \* the exception that ended the run, if any
    args, result, \* a direct call of a helper: its arguments and its outcome
    nw            \* the root-finder's loop state during a direct xirr call

vars == <<pc, heap, cflows, built, scalar, portfolio_now, invested, port_xirr, sp_xirr,
          port_cagr, sp_cagr, prices, shares, final_value, synthetic,
          displayed, err, args, result, nw>>

\* ------------------------------------------------------------------- xnpv
\* Kind of float(sum(cf / (1 + rate) ** ((date - t0).days / 365.0) ...)) for
\* a candidate rate above, at, or below -1.  With Python floats a zero base
\* raises ZeroDivisionError for any non-zero exponent and a negative base
\* with a fractional exponent gives a complex number, which float() refuses;
\* with numpy float64 scalars the same operations give inf or nan.
RateClasses == {"gt", "eq", "lt"}
ScalarTypes == {"float", "float64"}

DaysFrom(cashflows, i) == cashflows[i][1] - cashflows[1][1]

xnpv(rate, sc, cashflows) ==
    LET idx == 1..Len(cashflows)
        anyNonZero == \E i \in idx : DaysFrom(cashflows, i) # 0
        anyPositive == \E i \in idx : DaysFrom(cashflows, i) > 0
        anyFractional == \E i \in idx : DaysFrom(cashflows, i) % YearDays # 0
    IN  CASE rate = "gt" -> [kind |-> "finite", exc |-> ""]
          [] rate = "eq" ->
                IF sc = "float"
                THEN IF anyNonZero THEN Raise("ZeroDivisionError")
                     ELSE [kind |-> "finite", exc |-> ""]
                ELSE IF anyPositive THEN [kind |-> "nonfinite", exc |-> ""]
                     ELSE [kind |-> "finite", exc |-> ""]
          [] rate = "lt" ->
                IF anyFractional
                THEN IF sc = "float" THEN Raise("TypeError")
                     ELSE [kind |-> "nonfinite", exc |-> ""]
                ELSE [kind |-> "finite", exc |-> ""]

\* xnpv does not depend on the rate: every exponent is 0 or every discounted
\* amount is 0.
XnpvConstant(cashflows) ==
    \A i \in 1..Len(cashflows) :
        DaysFrom(cashflows, i) = 0 \/ cashflows[i][2] = RZero

\* ------------------------------------------------------------------- xirr
\* newton(f, 0.1) without fprime is the secant iteration: it has evaluated f
\* at 0.1 and next to it (both above -1) and then loops at most maxiter
\* times.  One pass either finds the two last values equal and raises
\* RuntimeError, or finds the new candidate close to the last and returns
\* it, or evaluates f at the new candidate, whose exception, if any, leaves
\* newton as it is.  After maxiter passes newton raises RuntimeError.
Loop(n) == [st |-> "loop", itr |-> n, exc |-> ""]

\* One pass of the loop, given whether f is constant and the outcome q[c] of
\* evaluating f at a candidate of class c.
NewtonPass(itr, constant, q) ==
    LET stall == [st |-> "raised", itr |-> itr + 1, exc |-> "RuntimeError"]
        conv == [st |-> "returned", itr |-> itr + 1, exc |-> ""]
        cont(c) ==
            IF q[c].kind = "raise"
            THEN [st |-> "raised", itr |-> itr + 1, exc |-> q[c].exc]
            ELSE Loop(itr + 1)
    IN  IF itr >= maxiter
        THEN {[st |-> "raised", itr |-> itr, exc |-> "RuntimeError"]}
        ELSE IF constant THEN {stall}
        ELSE {stall, conv} \cup {cont(c) : c \in RateClasses}

Evaluations(sc, cashflows) == [c \in RateClasses |-> xnpv(c, sc, cashflows)]

NewtonStep(itr, sc, cashflows) ==
    NewtonPass(itr, XnpvConstant(cashflows), Evaluations(sc, cashflows))

RECURSIVE NewtonRunOn(_, _, _)
NewtonRunOn(itr, constant, q) ==
    LET after == NewtonPass(itr, constant, q)
    IN  {t \in after : t.st # "loop"}
        \cup (IF Loop(itr + 1) \in after
              THEN NewtonRunOn(itr + 1, constant, q) ELSE {})

\* every way the call newton(f, 0.1) can end
NewtonRun(sc, cashflows) ==
    LET constant == XnpvConstant(cashflows)
        q == Evaluations(sc, cashflows)
    IN  NewtonRunOn(0, constant, q)

\* try: return float(newton(...))  except RuntimeError: return float("nan")
XirrOutcome(t) ==
    IF t.st = "returned" THEN Rate
    ELSE IF t.exc = "RuntimeError" THEN Nan
    ELSE Raise(t.exc)

xirr(sc, cashflows) == { XirrOutcome(t) : t \in NewtonRun(sc, cashflows) }

\* --------------------------------------------------------- total_invested
RECURSIVE SumNegative(_, _)
SumNegative(cashflows, i) ==
    IF i = 0 THEN RZero
    ELSE LET rest == SumNegative(cashflows, i - 1)
         IN  IF RLess(cashflows[i][2], RZero)
             THEN RAdd(rest, cashflows[i][2]) ELSE rest

RECURSIVE SumAll(_, _)
SumAll(cashflows, i) ==
    IF i = 0 THEN RZero ELSE RAdd(SumAll(cashflows, i - 1), cashflows[i][2])

\* a slip that drops the `if cf < 0` filter
total_invested_unfiltered(cashflows) == RNeg(SumAll(cashflows, Len(cashflows)))

total_invested(cashflows) == RNeg(SumNegative(cashflows, Len(cashflows)))

\* -------------------------------------------------------------- lump_cagr
\* floor(log2(n / d)) for n / d >= 1
RECURSIVE FloorLog2(_, _)
FloorLog2(n, d) == IF n < 2 * d THEN 0 ELSE 1 + FloorLog2(n, 2 * d)

\* Whether base ** (YearDays / days) leaves the range of a double (about
\* 2^1024), for a base of magnitude m > 0: "yes", "no", or "maybe" when the
\* integer logarithm does not decide it.
MaxExp == 1024
Overflows(m, days) ==
    LET up == IF days > 0 THEN m ELSE <<m[2], m[1]>>   \* base or its inverse
        k == FloorLog2(up[1], up[2])
        d == Abs(days)
    IN  IF ~RLess(R(1), up) THEN "no"
        ELSE IF YearDays * k >= MaxExp * d THEN "yes"
        ELSE IF YearDays * (k + 1) <= MaxExp * d THEN "no"
        ELSE "maybe"

CagrValue(ratio, days) == [kind |-> "value", exc |-> "", ratio |-> ratio, days |-> days]
CagrComplex(ratio, days) == [kind |-> "complex", exc |-> "", ratio |-> ratio, days |-> days]
CagrNan == [kind |-> "nan", exc |-> "", ratio |-> RZero, days |-> 0]
CagrRaise(e) == [kind |-> "raise", exc |-> e, ratio |-> RZero, days |-> 0]

\* (end_val / start_val) ** (1 / years) - 1, the branch taken when years is
\* not zero; the set of its possible outcomes.
CagrPower(start_val, end_val, days) ==
    IF start_val = RZero THEN {CagrRaise("ZeroDivisionError")}
    ELSE LET ratio == RDiv(end_val, start_val)
             whole == YearDays % Abs(days) = 0    \* 1 / years is an integer
             fin == IF RLess(ratio, RZero) /\ ~whole
                    THEN CagrComplex(ratio, days) ELSE CagrValue(ratio, days)
         IN  IF ratio = RZero
             THEN IF days < 0 THEN {CagrRaise("ZeroDivisionError")}
                  ELSE {CagrValue(ratio, days)}
             ELSE LET o == Overflows(<<Abs(ratio[1]), ratio[2]>>, days)
                  IN  CASE o = "yes" -> {CagrRaise("OverflowError")}
                        [] o = "no" -> {fin}
                        [] OTHER -> {fin, CagrRaise("OverflowError")}

\* a slip that evaluates the power before looking at years
lump_cagr_unguarded(start_val, end_val, start_date, end_date) ==
    IF end_date - start_date = 0 THEN {CagrRaise("ZeroDivisionError")}
    ELSE CagrPower(start_val, end_val, end_date - start_date)

lump_cagr(start_val, end_val, start_date, end_date) ==
    LET days == end_date - start_date
    IN  IF days = 0 THEN {CagrNan}
        ELSE CagrPower(start_val, end_val, days)

portfolio_cagr(cashflows, current_value) ==
    lump_cagr(total_invested(cashflows), current_value,
              cashflows[1][1], cashflows[Len(cashflows)][1])

\* -------------------------------------------------------- download_prices
\* The provider's answer is an input: any series of (date, price) points,
\* strictly ascending by date, dated within [start, end] (end inclusive),
\* possibly with gaps, possibly empty.
RECURSIVE SeqOfPoints(_)
SeqOfPoints(f) ==
    IF DOMAIN f = {} THEN <<>>
    ELSE LET d == CHOOSE x \in DOMAIN f : \A y \in DOMAIN f : x <= y
         IN  <<<<d, R(f[d])>>>> \o SeqOfPoints([y \in DOMAIN f \ {d} |-> f[y]])

download_prices(start, end) ==
    { SeqOfPoints(f) :
        f \in UNION { [S -> PriceSet] :
                        S \in SUBSET {d \in Dates : start <= d /\ d <= end} } }

\* ----------------------------------------------------- sp_xirr_equivalent
AtOrBefore(series, date) == SelectSeq(series, LAMBDA pt : pt[1] <= date)

\* a slip that takes .iloc[0] of the filtered series
PriceLookupFirst(series, date) == AtOrBefore(series, date)[1][2]

\* prices[prices.index <= date].iloc[-1]; the caller has checked that the
\* filtered series is not empty (an empty one raises IndexError)
PriceLookup(series, date) ==
    LET sel == AtOrBefore(series, date) IN sel[Len(sel)][2]

\* The loop of lines 92-96 over cashflows[1..n]: the shares bought, or the
\* IndexError of the first lookup that finds no price.
RECURSIVE SharesLoop(_, _, _)
SharesLoop(cashflows, series, n) ==
    IF n = 0 THEN [ok |-> TRUE, shares |-> RZero]
    ELSE LET before == SharesLoop(cashflows, series, n - 1)
             date == cashflows[n][1]
             amt == cashflows[n][2]
         IN  IF ~before.ok THEN before
             ELSE IF ~RLess(amt, RZero) THEN before
             ELSE IF AtOrBefore(series, date) = <<>>
                  THEN [ok |-> FALSE, shares |-> before.shares]
             ELSE [ok |-> TRUE,
                   shares |-> RAdd(before.shares,
                                   RDiv(RNeg(amt), PriceLookup(series, date)))]

\* final_value = shares * prices.iloc[-1]
FinalValue(held, series) == RMul(held, series[Len(series)][2])

\* a slip that keeps only the outflows
SyntheticOutflowsOnly(cashflows, end, value) ==
    SelectSeq(SubSeq(cashflows, 1, Len(cashflows) - 1),
              LAMBDA cf : RLess(cf[2], RZero)) \o <<<<end, value>>>>

\* cashflows[:-1] + [(end, final_value)]
SyntheticList(cashflows, end, value) ==
    SubSeq(cashflows, 1, Len(cashflows) - 1) \o <<<<end, value>>>>

\* a slip that overwrites the last entry of the caller's list
StoreSyntheticInPlace(h, ref, end, value) ==
    [heap |-> [h EXCEPT ![ref] = SyntheticList(h[ref], end, value)],
     ref |-> ref]

\* the slice and the concatenation each build a new list: the synthetic
\* series is a new object and the caller's list is left as it is
StoreSynthetic(h, ref, end, value) ==
    [heap |-> Append(h, SyntheticList(h[ref], end, value)),
     ref |-> Len(h) + 1]

\* ------------------------------------------------------------- main panel
Records == [RecordType : RecordTypes, TradeDate : Dates, Amount : TradeAmounts]
Uploads == UNION { [1..n -> Records] : n \in 0..MaxTrades }

\* list.sort(key=lambda x: x[0]): ascending by date, stable
RECURSIVE SortByDate(_)
SortByDate(s) ==
    IF s = <<>> THEN <<>>
    ELSE LET front == SortByDate(SubSeq(s, 1, Len(s) - 1))
             x == s[Len(s)]
         IN  SelectSeq(front, LAMBDA y : y[1] <= x[1]) \o <<x>>
             \o SelectSeq(front, LAMBDA y : y[1] > x[1])

\* lines 129-137: the Trade rows, as (TradeDate, Amount) pairs, sorted,
\* then the valuation appended
BuildCashflows(rows, valuation_date, value) ==
    LET trades == SelectSeq(rows, LAMBDA r : r.RecordType = "Trade")
        pairs == [i \in 1..Len(trades) |->
                    <<trades[i].TradeDate, R(trades[i].Amount)>>]
    IN  Append(SortByDate(pairs), <<valuation_date, R(value)>>)

Metrics == {"invested", "port_xirr", "port_cagr", "sp_xirr", "sp_cagr"}
NoCagr == [kind |-> "none", exc |-> "", ratio |-> RZero, days |-> 0]

\* a variant with each calculation guarded by try/except: the
\* failure recorded and the run going on with the next step
Swallow(e, at, next) ==
    /\ pc' = next
    /\ err' = [exc |-> e, at |-> at]

\* The main panel has no try/except: an exception raised by a calculation
\* ends the script run there, before anything is displayed.
Propagate(e, at, next) ==
    /\ pc' = "aborted"
    /\ err' = [exc |-> e, at |-> at]

Init ==
    /\ pc = "start"
    /\ heap = <<>>
    /\ cflows = 0
    /\ built = <<>>
    /\ scalar \in ScalarTypes
    /\ portfolio_now = 0
    /\ invested = RZero
    /\ port_xirr = NoResult
    /\ sp_xirr = NoResult
    /\ port_cagr = NoCagr
    /\ sp_cagr = NoCagr
    /\ prices = <<>>
    /\ shares = RZero
    /\ final_value = RZero
    /\ synthetic = 0
    /\ displayed = {}
    /\ err = NoErr
    /\ args = <<>>
    /\ result = NoResult
    /\ nw = Loop(0)

locals == <<prices, shares, final_value, synthetic>>
metrics == <<invested, port_xirr, sp_xirr, port_cagr, sp_cagr>>
direct == <<args, result, nw>>

\* lines 127-137 and 159-160: the input gate, then the cash-flow list
LoadAndBuild ==
    /\ pc = "start"
    /\ \E csv_file \in BOOLEAN, rows \in Uploads, valuation_date \in Dates,
          value \in PortfolioValues :
          IF csv_file /\ value > 0
          THEN /\ heap' = <<BuildCashflows(rows, valuation_date, value)>>
               /\ cflows' = 1
               /\ built' = heap'[1]
               /\ portfolio_now' = value
               /\ pc' = "invested"
          ELSE /\ pc' = "info"
               /\ UNCHANGED <<heap, cflows, built, portfolio_now>>
    /\ UNCHANGED <<scalar, metrics, locals, displayed, err, direct>>

\* line 140
CalcInvested ==
    /\ pc = "invested"
    /\ invested' = total_invested(heap[cflows])
    /\ pc' = "port_xirr"
    /\ UNCHANGED <<heap, cflows, built, scalar, portfolio_now, port_xirr,
                   sp_xirr, port_cagr, sp_cagr, locals, displayed, err, direct>>

\* line 141
CalcPortXirr ==
    /\ pc = "port_xirr"
    /\ \E o \in xirr(scalar, heap[cflows]) :
          IF o.kind = "raise"
          THEN Propagate(o.exc, "xirr", "sp_build") /\ port_xirr' = port_xirr
          ELSE pc' = "sp_build" /\ err' = err /\ port_xirr' = o
    /\ UNCHANGED <<heap, cflows, built, scalar, portfolio_now, invested,
                   sp_xirr, port_cagr, sp_cagr, locals, displayed, direct>>

\* line 142, sp_xirr_equivalent up to line 98
SpBuild ==
    /\ pc = "sp_build"
    /\ LET cashflows == heap[cflows]
           begin == cashflows[1][1]
           end == cashflows[Len(cashflows)][1]
       IN  \E series \in download_prices(begin, end) :
             LET loop == SharesLoop(cashflows, series, Len(cashflows) - 1)
             IN  IF ~loop.ok \/ series = <<>>
                 THEN /\ Propagate("IndexError", "sp_xirr_equivalent", "port_cagr")
                      /\ UNCHANGED <<heap, locals>>
                 ELSE LET value == FinalValue(loop.shares, series)
                          st == StoreSynthetic(heap, cflows, end, value)
                      IN  /\ prices' = series
                          /\ shares' = loop.shares
                          /\ final_value' = value
                          /\ heap' = st.heap
                          /\ synthetic' = st.ref
                          /\ pc' = "sp_xirr"
                          /\ err' = err
    /\ UNCHANGED <<cflows, built, scalar, portfolio_now, metrics, displayed,
                   direct>>

\* line 99 and the return to line 142: the locals go out of scope
SpXirr ==
    /\ pc = "sp_xirr"
    /\ \E o \in xirr(scalar, heap[synthetic]) :
          IF o.kind = "raise"
          THEN Propagate(o.exc, "sp_xirr_equivalent", "port_cagr")
               /\ sp_xirr' = sp_xirr
          ELSE pc' = "port_cagr" /\ err' = err /\ sp_xirr' = o
    /\ heap' = SubSeq(heap, 1, 1)
    /\ prices' = <<>>
    /\ shares' = RZero
    /\ final_value' = RZero
    /\ synthetic' = 0
    /\ UNCHANGED <<cflows, built, scalar, portfolio_now, invested, port_xirr,
                   port_cagr, sp_cagr, displayed, direct>>

\* line 143
CalcPortCagr ==
    /\ pc = "port_cagr"
    /\ \E o \in portfolio_cagr(heap[cflows], R(portfolio_now)) :
          IF o.kind = "raise"
          THEN Propagate(o.exc, "portfolio_cagr", "sp_cagr")
               /\ port_cagr' = port_cagr
          ELSE pc' = "sp_cagr" /\ err' = err /\ port_cagr' = o
    /\ UNCHANGED <<heap, cflows, built, scalar, portfolio_now, invested,
                   port_xirr, sp_xirr, sp_cagr, locals, displayed, direct>>

\* line 144, sp500_cagr_lumpsum
CalcSpCagr ==
    /\ pc = "sp_cagr"
    /\ LET cashflows == heap[cflows]
           begin == cashflows[1][1]
           end == cashflows[Len(cashflows)][1]
       IN  \E series \in download_prices(begin, end) :
             IF series = <<>>
             THEN Propagate("IndexError", "sp500_cagr_lumpsum", "display")
                  /\ sp_cagr' = sp_cagr
             ELSE \E o \in lump_cagr(series[1][2], series[Len(series)][2],
                                     begin, end) :
                    IF o.kind = "raise"
                    THEN Propagate(o.exc, "sp500_cagr_lumpsum", "display")
                         /\ sp_cagr' = sp_cagr
                    ELSE pc' = "display" /\ err' = err /\ sp_cagr' = o
    /\ UNCHANGED <<heap, cflows, built, scalar, portfolio_now, invested,
                   port_xirr, sp_xirr, port_cagr, locals, displayed, direct>>

\* lines 147-153
Display ==
    /\ pc = "display"
    /\ displayed' = Metrics
    /\ pc' = "done"
    /\ UNCHANGED <<heap, cflows, built, scalar, portfolio_now, metrics,
                   locals, err, direct>>

\* Streamlit runs the script again, from the top, on the next interaction.
Rerun ==
    /\ pc \in {"info", "done", "aborted"}
    /\ pc' = "start"
    /\ heap' = <<>>
    /\ cflows' = 0
    /\ built' = <<>>
    /\ portfolio_now' = 0
    /\ invested' = RZero
    /\ port_xirr' = NoResult
    /\ sp_xirr' = NoResult
    /\ port_cagr' = NoCagr
    /\ sp_cagr' = NoCagr
    /\ displayed' = {}
    /\ err' = NoErr
    /\ UNCHANGED <<scalar, locals, direct>>

Next ==
    \/ LoadAndBuild
    \/ CalcInvested
    \/ CalcPortXirr
    \/ SpBuild
    \/ SpXirr
    \/ CalcPortCagr
    \/ CalcSpCagr
    \/ Display
    \/ Rerun

Spec == Init /\ [][Next]_vars

\* ------------------------------------------------ direct call of lump_cagr
CagrValues == {-1000, 0, 1, 1000, 2000}

Unused ==
    /\ heap = <<>>
    /\ cflows = 0
    /\ built = <<>>
    /\ portfolio_now = 0
    /\ invested = RZero
    /\ port_xirr = NoResult
    /\ sp_xirr = NoResult
    /\ port_cagr = NoCagr
    /\ sp_cagr = NoCagr
    /\ prices = <<>>
    /\ shares = RZero
    /\ final_value = RZero
    /\ synthetic = 0
    /\ displayed = {}
    /\ err = NoErr

InitCagr ==
    /\ Unused
    /\ scalar = "float"
    /\ pc = "call"
    /\ args \in { <<R(v1), R(v2), d1, d2>> :
                    v1 \in CagrValues, v2 \in CagrValues \ {-1000},
                    d1 \in Dates, d2 \in Dates }
    /\ result = NoCagr
    /\ nw = Loop(0)

CallLumpCagr ==
    /\ pc = "call"
    /\ result' \in lump_cagr(args[1], args[2], args[3], args[4])
    /\ pc' = "returned"
    /\ UNCHANGED <<heap, cflows, built, scalar, portfolio_now, metrics,
                   locals, displayed, err, args, nw>>

NextCagr == CallLumpCagr

SpecCagr == InitCagr /\ [][NextCagr]_vars

\* ----------------------------------------------------- direct call of xirr
\* xirr on any non-empty series, the root-finder's loop taken pass by pass.
SeriesAmounts == {-500, 200, 1000}
Entries == { <<d, R(a)>> : d \in Dates, a \in SeriesAmounts }
SeriesSet == UNION { [1..n -> Entries] : n \in 1..MaxTrades }

InitXirr ==
    /\ Unused
    /\ scalar \in ScalarTypes
    /\ pc = "call"
    /\ args \in SeriesSet
    /\ result = NoResult
    /\ nw = Loop(0)

NewtonIterate ==
    /\ pc = "call"
    /\ nw.st = "loop"
    /\ nw' \in NewtonStep(nw.itr, scalar, args)
    /\ UNCHANGED <<pc, heap, cflows, built, scalar, portfolio_now, metrics,
                   locals, displayed, err, args, result>>

XirrReturn ==
    /\ pc = "call"
    /\ nw.st # "loop"
    /\ result' = XirrOutcome(nw)
    /\ pc' = "returned"
    /\ UNCHANGED <<heap, cflows, built, scalar, portfolio_now, metrics,
                   locals, displayed, err, args, nw>>

NextXirr == NewtonIterate \/ XirrReturn

SpecXirr == InitXirr /\ [][NextXirr]_vars

\* The loop runs without suspension points: a started call keeps stepping.
FairXirr == SpecXirr /\ WF_vars(NextXirr)

\* The pass-by-pass run and the set of outcomes used by the main panel agree.
XirrModelsAgree == pc = "returned" => result \in xirr(scalar, args)

\* A direct call ends, after at most maxiter passes.
XirrPassesBounded == nw.itr <= maxiter
XirrEnds == <>(pc = "returned")

\* ================================================================ claims
IsOutflow(cf) == RLess(cf[2], RZero)
NonFinal(s) == SubSeq(s, 1, Len(s) - 1)
BenchmarkCalls == {"sp_xirr_equivalent", "sp500_cagr_lumpsum"}

\* C1 (as amended): once sp_xirr_equivalent has built the synthetic series,
\* it holds every non-final entry of the input, outflow or not, unchanged and
\* in the original order, followed by the one entry (finalDate, finalValue).
C1_SyntheticKeepsEveryNonFinalEntry ==
    pc = "sp_xirr" =>
        LET syn == heap[synthetic]
            n == Len(built)
        IN  /\ Len(syn) = n
            /\ \A i \in 1..(n - 1) : syn[i] = built[i]
            /\ syn[n] = <<built[n][1], final_value>>

\* C1 as stated: the synthetic series is the outflows only, then the final
\* entry; every non-final entry with a non-negative amount is absent.
C1_SyntheticIsOutflowsOnly ==
    pc = "sp_xirr" =>
        LET syn == heap[synthetic]
        IN  /\ NonFinal(syn) = SelectSeq(NonFinal(built), IsOutflow)
            /\ \A i \in 1..(Len(syn) - 1) : IsOutflow(syn[i])
            /\ syn[Len(syn)] = <<built[Len(built)][1], final_value>>

C1_Witness ==
    /\ pc = "sp_xirr"
    /\ Len(built) = 3
    /\ \E i, j \in 1..2 : IsOutflow(built[i]) /\ ~IsOutflow(built[j])
                          /\ heap[synthetic][j] = built[j]

\* the latest price dated at or before a date, said without the filter
LatestPrice(series, date) ==
    LET pts == { series[k] : k \in {k \in 1..Len(series) : series[k][1] <= date} }
        best == CHOOSE p \in pts : \A q \in pts : q[1] <= p[1]
    IN  best[2]

RECURSIVE SumShares(_, _, _)
SumShares(S, cashflows, series) ==
    IF S = {} THEN RZero
    ELSE LET i == CHOOSE x \in S : TRUE
         IN  RAdd(RDiv(RNeg(cashflows[i][2]), LatestPrice(series, cashflows[i][1])),
                  SumShares(S \ {i}, cashflows, series))

ExampleSeries == << <<0, R(-500)>>, <<1, R(-500)>>, <<2, R(1000)>> >>
ExamplePrices == << <<0, R(100)>>, <<1, R(200)>>, <<2, R(250)>> >>

\* C2: the shares held are the sum, over the non-final outflows only, of
\* (-amount) / (latest price at or before the entry's date), and the final
\* value is the shares times the price at the last entry's date; outflows of
\* 500 at 100 and 500 at 200 with a final price of 250 give 7.5 shares and
\* 1875.
C2_SharesAndFinalValue ==
    /\ pc = "sp_xirr" =>
          LET n == Len(built)
              outflows == {i \in 1..(n - 1) : IsOutflow(built[i])}
          IN  /\ shares = SumShares(outflows, built, prices)
              /\ final_value = RMul(shares, LatestPrice(prices, built[n][1]))
    /\ SharesLoop(ExampleSeries, ExamplePrices, 2) = [ok |-> TRUE, shares |-> <<15, 2>>]
    /\ FinalValue(<<15, 2>>, ExamplePrices) = R(1875)

C2_Witness ==
    /\ pc = "sp_xirr"
    /\ Len(built) = 3
    /\ IsOutflow(built[1]) /\ IsOutflow(built[2])
    /\ Len(prices) >= 2
    /\ shares = R(7)
    /\ final_value = R(1750)

C4_NonPositiveStartGivesNan ==
    (pc = "returned" /\ ~RLess(RZero, args[1]) /\ args[3] # args[4])
        => result = CagrNan

\* C5 (as amended): a failure of the benchmark computation ends the run
\* where it is raised, before the display: no metric is reported, the
\* portfolio's included.
C5_BenchmarkFailureEndsTheRun ==
    err.at \in BenchmarkCalls => (pc = "aborted" /\ displayed = {})

\* C5 as stated: when the benchmark computation fails, total invested,
\* portfolio IRR and portfolio CAGR are still reported.
C5_PortfolioMetricsStillReported ==
    (pc = "aborted" /\ err.at \in BenchmarkCalls)
        => {"invested", "port_xirr", "port_cagr"} \subseteq displayed

C5_Witness ==
    /\ pc = "aborted"
    /\ err = [exc |-> "IndexError", at |-> "sp_xirr_equivalent"]
    /\ invested = R(500)
    /\ port_xirr.kind \in {"rate", "nan"}
    /\ displayed = {}

\* C6: the list handed to the engine functions is non-empty, sorted
\* ascending by date, and ends with the valuation entry, which has the
\* latest date.
C6_SeriesSortedValuationLast ==
    cflows # 0 =>
        LET s == heap[cflows]
            n == Len(s)
        IN  /\ n >= 1
            /\ \A i \in 1..(n - 1) : s[i][1] <= s[i + 1][1]
            /\ s[n][2] = R(portfolio_now)
            /\ \A i \in 1..n : s[i][1] <= s[n][1]

C8_ZeroElapsedGivesNan ==
    (pc = "returned" /\ args[3] = args[4]) => result = CagrNan

C8_Witness ==
    /\ pc = "returned"
    /\ args[1] = RZero
    /\ args[3] = args[4]
    /\ result.kind = "nan"

\* C9: when every non-final entry is an outflow and the final entry is a
\* non-negative valuation, total_invested of the synthetic series equals
\* total_invested of the original series.
C9_InvestedTotalRoundTrip ==
    (/\ pc = "sp_xirr"
     /\ \A i \in 1..(Len(built) - 1) : IsOutflow(built[i])
     /\ ~IsOutflow(built[Len(built)]))
        => total_invested(heap[synthetic]) = invested

C9_Witness ==
    /\ pc = "sp_xirr"
    /\ Len(built) = 3
    /\ IsOutflow(built[1]) /\ IsOutflow(built[2])
    /\ final_value # built[3][2]
    /\ total_invested(heap[synthetic]) = R(1000)

\* C10: from the first calculation to the end of the run the caller's list
\* is, element for element, the list that was built, and the synthetic
\* series is another list object.
C10_CallerSeriesUntouched ==
    cflows # 0 =>
        /\ heap[cflows] = built
        /\ pc = "sp_xirr" => (synthetic # cflows /\ synthetic \in 1..Len(heap))

C10_Witness ==
    /\ pc = "done"
    /\ displayed = Metrics
    /\ Len(built) = 3
    /\ heap[cflows] = built

====
